---- MODULE Spec2Model ----
(***************************************************************************)
(* Model of telescope/selector.py: SelectorFileParser (validation,         *)
(* cross-product expansion, duration / start-time / ip_translation         *)
(* parsing) and the SelectorFileValidator family.                          *)
(*                                                                         *)
(* Conventions.  A JSON object is a function whose DOMAIN is the set of    *)
(* keys present, so has_key(k) is k \in DOMAIN d.  A Python str that the   *)
(* code inspects character by character (the duration) is a sequence of    *)
(* one-character strings.  file_format_version is held in tenths (1.0 is   *)
(* 10, 1.1 is 11).  An operator that may raise returns a record whose      *)
(* error field is None or the message of the ValueError / KeyError.        *)
(***************************************************************************)
EXTENDS Integers, Sequences, FiniteSets, TLC

VARIABLES
  pc,                        \* position of the current parse call
  selector_json,             \* the decoded document of the current call
  parser_validator,          \* the validator _validate_selector_input chose
  k,                         \* iterations of the itertools.product loop done
  selectors,                 \* the local list _parse_input_for_selectors builds
  result,                    \* the list handed to the caller of parse
  error,                     \* the message of the exception the caller got
  IPTranslationStrategySpec, \* attributes of the object the name denotes
  constructed,               \* Selector() constructions in the current call
  ip_parses,                 \* _parse_ip_translation calls in the current call
  duration_parses,           \* _parse_duration calls in the current call
  held,                      \* results of earlier calls the caller still holds
  duration_string,           \* argument of a direct _parse_duration call
  duration_outcome           \* what that call returned or raised

vars == <<pc, selector_json, parser_validator, k, selectors, result, error,
          IPTranslationStrategySpec, constructed, ip_parses, duration_parses,
          held, duration_string, duration_outcome>>

parseVars == <<pc, selector_json, parser_validator, k, selectors, result, error,
               IPTranslationStrategySpec, constructed, ip_parses,
               duration_parses, held>>

(***************************************************************************)
(* Bounds of the model.                                                    *)
(***************************************************************************)
MaxStartTimes == 2
MaxProviders == 2
MaxSites == 2
MaxMetrics == 2
MaxLen == 4
MaxHeld == 2

None == "None"

(***************************************************************************)
(* Characters and the regular expressions of _parse_duration.              *)
(***************************************************************************)
DigitChars == {"0", "1", "2", "3", "4", "5", "6", "7", "8", "9"}

LetterChars ==
  {"a", "b", "c", "d", "e", "f", "g", "h", "i", "j", "k", "l", "m", "n", "o",
   "p", "q", "r", "s", "t", "u", "v", "w", "x", "y", "z",
   "A", "B", "C", "D", "E", "F", "G", "H", "I", "J", "K", "L", "M", "N", "O",
   "P", "Q", "R", "S", "T", "U", "V", "W", "X", "Y", "Z"}

DigitValue(c) ==
  CASE c = "0" -> 0 [] c = "1" -> 1 [] c = "2" -> 2 [] c = "3" -> 3
    [] c = "4" -> 4 [] c = "5" -> 5 [] c = "6" -> 6 [] c = "7" -> 7
    [] c = "8" -> 8 [] c = "9" -> 9

\* int(digits): the decimal value of a run of digits (Python ints are unbounded).
RECURSIVE IntOf(_)
IntOf(digits) ==
  IF digits = <<>> THEN 0
  ELSE 10 * IntOf(SubSeq(digits, 1, Len(digits) - 1))
       + DigitValue(digits[Len(digits)])

\* The end (exclusive) of the longest run of characters of class C from i.
RECURSIVE RunEnd(_, _, _)
RunEnd(s, i, C) ==
  IF i <= Len(s) /\ s[i] \in C THEN RunEnd(s, i + 1, C) ELSE i

\* re.findall('[0-9]+[a-zA-Z]+', s) from position i: the leftmost,
\* non-overlapping, greedy matches; characters that start no match are skipped.
RECURSIVE FindAll(_, _)
FindAll(s, i) ==
  IF i > Len(s) THEN <<>>
  ELSE LET j == RunEnd(s, i, DigitChars)
           e == RunEnd(s, j, LetterChars)
       IN IF j > i /\ e > j
            THEN <<SubSeq(s, i, e - 1)>> \o FindAll(s, e)
            ELSE FindAll(s, i + 1)

\* re.search('[0-9]+', segment).group(0) and re.search('[a-zA-Z]+', ...) on a
\* segment FindAll produced (digits first, then letters).
SegmentDigits(segment) == SubSeq(segment, 1, RunEnd(segment, 1, DigitChars) - 1)
SegmentLetters(segment) ==
  SubSeq(segment, RunEnd(segment, 1, DigitChars), Len(segment))

SecondsPerDay == 86400
SecondsPerHour == 3600
SecondsPerMinute == 60

\* The for loop of _parse_duration over the segments, from accumulator acc.
RECURSIVE SumSegments(_, _)
SumSegments(segments, acc) ==
  IF segments = <<>> THEN [error |-> None, value |-> acc]
  ELSE LET numerical_amount == IntOf(SegmentDigits(Head(segments)))
           duration_type == SegmentLetters(Head(segments))
       IN CASE duration_type = <<"d">> ->
                 SumSegments(Tail(segments), acc + numerical_amount * SecondsPerDay)
            [] duration_type = <<"h">> ->
                 SumSegments(Tail(segments), acc + numerical_amount * SecondsPerHour)
            [] duration_type = <<"m">> ->
                 SumSegments(Tail(segments), acc + numerical_amount * SecondsPerMinute)
            [] duration_type = <<"s">> ->
                 SumSegments(Tail(segments), acc + numerical_amount)
            [] OTHER ->
                 [error |-> "UnsupportedSelectorDurationType", value |-> 0]

\* SelectorFileParser._parse_duration
ParseDuration(s) ==
  LET duration_string_segments == FindAll(s, 1)
  IN IF duration_string_segments # <<>>
       THEN SumSegments(duration_string_segments, 0)
       ELSE [error |-> "UnsupportedSelectorDuration", value |-> 0]

(***************************************************************************)
(* The class attribute SelectorFileParser.supported_metrics.                *)
(***************************************************************************)
supported_metrics ==
  [metric \in {"download_throughput", "upload_throughput", "minimum_rtt",
               "average_rtt", "packet_retransmit_rate"} |-> "ndt"]

\* Selector.__init__: every attribute None.
Selector ==
  [start_time |-> None, duration |-> None, metric |-> None,
   ip_translation_spec |-> None, client_provider |-> None, site |-> None,
   mlab_project |-> None]

(***************************************************************************)
(* SelectorFileParser._parse_start_time.  A timestamp string is held by    *)
(* its fields: 'YYYY-MM-DD', the separator, 'HH:MM:SS' and the suffix.     *)
(* strptime with '%Y-%m-%dT%H:%M:%SZ' needs the literal T and Z and every  *)
(* field in range; the result is made UTC aware.                           *)
(***************************************************************************)
DaysInMonth(year, month) ==
  IF month \in {4, 6, 9, 11} THEN 30
  ELSE IF month # 2 THEN 31
  ELSE IF year % 4 = 0 /\ (year % 100 # 0 \/ year % 400 = 0) THEN 29
  ELSE 28

ParseStartTime(start_time_string) ==
  IF /\ start_time_string.sep = "T"
     /\ start_time_string.suffix = "Z"
     /\ start_time_string.year \in 1..9999
     /\ start_time_string.month \in 1..12
     /\ start_time_string.day \in
          1..DaysInMonth(start_time_string.year, start_time_string.month)
     /\ start_time_string.hour \in 0..23
     /\ start_time_string.minute \in 0..59
     /\ start_time_string.second \in 0..61
    THEN [error |-> None,
          value |-> [year |-> start_time_string.year,
                     month |-> start_time_string.month,
                     day |-> start_time_string.day,
                     hour |-> start_time_string.hour,
                     minute |-> start_time_string.minute,
                     second |-> start_time_string.second,
                     tzinfo |-> "UTC"]]
    ELSE [error |-> "UnsupportedSubsetDateFormat", value |-> None]

(***************************************************************************)
(* SelectorFileParser._parse_ip_translation.  The local ip_translation_spec *)
(* is bound to the object that iptranslation.IPTranslationStrategySpec      *)
(* names (the name is not called), so both assignments set attributes of    *)
(* that one object and the value returned is a reference to it.  cls is the *)
(* object's attributes before the call; the first assignment has taken      *)
(* effect when the second raises KeyError.                                  *)
(***************************************************************************)
SharedSpecRef == "iptranslation.IPTranslationStrategySpec"

ParseIpTranslation(ip_translation_dict, cls) ==
  IF "strategy" \notin DOMAIN ip_translation_dict
    THEN [error |-> "Missing expected field in ip_translation dict: strategy",
          cls |-> cls, value |-> None]
    ELSE LET named == [cls EXCEPT !.strategy_name = ip_translation_dict["strategy"]]
         IN IF "params" \notin DOMAIN ip_translation_dict
              THEN [error |-> "Missing expected field in ip_translation dict: params",
                    cls |-> named, value |-> None]
              ELSE [error |-> None,
                    cls |-> [named EXCEPT !.params = ip_translation_dict["params"]],
                    value |-> SharedSpecRef]

(***************************************************************************)
(* The validators.                                                         *)
(***************************************************************************)
\* Mutant: only the first entry of metrics is checked.
ValidateCommonFirstMetricOnly(selector_dict) ==
  IF "duration" \notin DOMAIN selector_dict THEN "UnsupportedDuration"
  ELSE IF \/ "metrics" \notin DOMAIN selector_dict
          \/ selector_dict["metrics"].type # "list"
    THEN "MetricsRequiresList"
  ELSE IF /\ selector_dict["metrics"].items # <<>>
          /\ selector_dict["metrics"].items[1] \notin DOMAIN supported_metrics
    THEN "UnsupportedMetric"
  ELSE None

\* Mutant: the entries of metrics are not checked.
ValidateCommonNoMetricCheck(selector_dict) ==
  IF "duration" \notin DOMAIN selector_dict THEN "UnsupportedDuration"
  ELSE IF \/ "metrics" \notin DOMAIN selector_dict
          \/ selector_dict["metrics"].type # "list"
    THEN "MetricsRequiresList"
  ELSE None

\* SelectorFileValidator.validate_common
ValidateCommon(selector_dict) ==
  IF "duration" \notin DOMAIN selector_dict THEN "UnsupportedDuration"
  ELSE IF \/ "metrics" \notin DOMAIN selector_dict
          \/ selector_dict["metrics"].type # "list"
    THEN "MetricsRequiresList"
  ELSE IF \E i \in 1..Len(selector_dict["metrics"].items) :
            selector_dict["metrics"].items[i] \notin DOMAIN supported_metrics
    THEN "UnsupportedMetric"
  ELSE None

\* Mutant: subsets is not looked at.
Validate1_1NoSubsets(selector_dict) == ValidateCommon(selector_dict)

\* SelectorFileValidator1_1.validate
Validate1_1(selector_dict) ==
  LET common == ValidateCommon(selector_dict)
  IN IF common # None THEN common
     ELSE IF "subsets" \in DOMAIN selector_dict THEN "SubsetsNoLongerSupported"
     ELSE None

\* Mutant: version 1.0 is not rejected but validated like 1.1.
ValidateSelectorInputNoDeprecation(selector_dict) ==
  IF "file_format_version" \notin DOMAIN selector_dict
    THEN [parser_validator |-> None, error |-> "NoSelectorVersionSpecified"]
  ELSE IF selector_dict["file_format_version"] \in {10, 11}
    THEN [parser_validator |-> "SelectorFileValidator1_1",
          error |-> Validate1_1(selector_dict)]
  ELSE [parser_validator |-> None, error |-> "UnsupportedSelectorVersion"]

\* SelectorFileParser._validate_selector_input
ValidateSelectorInput(selector_dict) ==
  IF "file_format_version" \notin DOMAIN selector_dict
    THEN [parser_validator |-> None, error |-> "NoSelectorVersionSpecified"]
  ELSE IF selector_dict["file_format_version"] = 10
    THEN [parser_validator |-> None, error |-> "DeprecatedSelectorVersion"]
  ELSE IF selector_dict["file_format_version"] = 11
    THEN [parser_validator |-> "SelectorFileValidator1_1",
          error |-> Validate1_1(selector_dict)]
  ELSE [parser_validator |-> None, error |-> "UnsupportedSelectorVersion"]

(***************************************************************************)
(* The expansion loop of _parse_input_for_selectors.                       *)
(***************************************************************************)
\* The number of tuples itertools.product yields.
ProductLen(selector_json_) ==
  Len(selector_json_["start_times"]) * Len(selector_json_["client_providers"])
    * Len(selector_json_["sites"]) * Len(selector_json_["metrics"].items)

\* Mutant: the site is always the first one.
ComboFirstSite(selector_json_, kk) ==
  LET start_times == selector_json_["start_times"]
      client_providers == selector_json_["client_providers"]
      sites == selector_json_["sites"]
      metrics == selector_json_["metrics"].items
  IN [start_time |->
        start_times[(kk \div (Len(metrics) * Len(sites) * Len(client_providers))) + 1],
      client_provider |->
        client_providers[((kk \div (Len(metrics) * Len(sites)))
                            % Len(client_providers)) + 1],
      site |-> sites[1],
      metric |-> metrics[(kk % Len(metrics)) + 1]]

\* Mutant: metrics is the outermost axis and start_times the innermost.
ComboMetricsOutermost(selector_json_, kk) ==
  LET start_times == selector_json_["start_times"]
      client_providers == selector_json_["client_providers"]
      sites == selector_json_["sites"]
      metrics == selector_json_["metrics"].items
  IN [start_time |-> start_times[(kk % Len(start_times)) + 1],
      client_provider |->
        client_providers[((kk \div (Len(start_times) * Len(sites)))
                            % Len(client_providers)) + 1],
      site |-> sites[((kk \div Len(start_times)) % Len(sites)) + 1],
      metric |->
        metrics[(kk \div (Len(start_times) * Len(sites) * Len(client_providers))) + 1]]

\* The tuple itertools.product yields at zero-based position kk: the rightmost
\* iterable advances fastest.
Combo(selector_json_, kk) ==
  LET start_times == selector_json_["start_times"]
      client_providers == selector_json_["client_providers"]
      sites == selector_json_["sites"]
      metrics == selector_json_["metrics"].items
  IN [start_time |->
        start_times[(kk \div (Len(metrics) * Len(sites) * Len(client_providers))) + 1],
      client_provider |->
        client_providers[((kk \div (Len(metrics) * Len(sites)))
                            % Len(client_providers)) + 1],
      site |-> sites[((kk \div Len(metrics)) % Len(sites)) + 1],
      metric |-> metrics[(kk % Len(metrics)) + 1]]

\* The body of the for loop once the two scalar fields have been parsed: the
\* first failure raises, otherwise the Selector is filled in.
Assemble(combo, ip, dur) ==
  LET st == ParseStartTime(combo.start_time)
  IN IF ip.error # None
       THEN [error |-> ip.error, cls |-> ip.cls, ip_parsed |-> 1,
             duration_parsed |-> 0, selector |-> Selector]
     ELSE IF dur.error # None
       THEN [error |-> dur.error, cls |-> ip.cls, ip_parsed |-> 1,
             duration_parsed |-> 1, selector |-> Selector]
     ELSE IF st.error # None
       THEN [error |-> st.error, cls |-> ip.cls, ip_parsed |-> 1,
             duration_parsed |-> 1, selector |-> Selector]
     ELSE IF combo.metric \notin DOMAIN supported_metrics
       THEN [error |-> "KeyError", cls |-> ip.cls, ip_parsed |-> 1,
             duration_parsed |-> 1, selector |-> Selector]
     ELSE [error |-> None, cls |-> ip.cls, ip_parsed |-> 1,
           duration_parsed |-> 1,
           selector |-> [start_time |-> st.value,
                         duration |-> dur.value,
                         metric |-> combo.metric,
                         ip_translation_spec |-> ip.value,
                         client_provider |-> combo.client_provider,
                         site |-> combo.site,
                         mlab_project |-> supported_metrics[combo.metric]]]

\* Mutant: the two scalar fields are parsed in the first iteration only.
LoopBodyHoisted(selector_json_, kk, cls) ==
  LET body == Assemble(Combo(selector_json_, kk),
                       ParseIpTranslation(selector_json_["ip_translation"], cls),
                       ParseDuration(selector_json_["duration"]))
  IN IF kk = 0 THEN body
     ELSE [body EXCEPT !.ip_parsed = 0, !.duration_parsed = 0]

\* One pass through the body of the for loop, at position kk of the product,
\* with cls the attributes of the shared object before it: both scalar fields
\* are parsed in every pass.
LoopBody(selector_json_, kk, cls) ==
  Assemble(Combo(selector_json_, kk),
           ParseIpTranslation(selector_json_["ip_translation"], cls),
           ParseDuration(selector_json_["duration"]))

\* Mutant: the partial list leaks to the caller with the exception.
ResultOnRaisePartial(partial) == partial

\* What the caller of parse holds when an exception leaves
\* _parse_file_contents: the local list is dropped with the frame.
ResultOnRaise(partial) == <<>>

(***************************************************************************)
(* Documents.                                                              *)
(***************************************************************************)
EmptyDict == [key \in {} |-> key]

Field(key, Values) == {key :> v : v \in Values}
Optional(key, Values) == {EmptyDict} \cup Field(key, Values)

SeqsUpTo(S, n) == UNION {[1..m -> S] : m \in 0..n}

Timestamp(day, sep) ==
  [year |-> 2014, month |-> 1, day |-> day, sep |-> sep,
   hour |-> 0, minute |-> 0, second |-> 0, suffix |-> "Z"]

\* Lists of start times, the i-th on day i, each well formed (separator T) or
\* not (a blank instead).
StartTimeLists(n) ==
  UNION {{[i \in 1..m |-> Timestamp(i, sep[i])] : sep \in [1..m -> {"T", " "}]}
           : m \in 0..n}

ProviderNames == <<"ProviderA", "ProviderB", "ProviderC", "ProviderD">>
SiteNames == <<"site1", "site2", "site3", "site4">>
Prefixes(names, n) == {SubSeq(names, 1, m) : m \in 0..n}

MetricNames == {"minimum_rtt", "download_throughput", "hop_count"}
MetricLists(n) == {[type |-> "list", items |-> l] : l \in SeqsUpTo(MetricNames, n)}
NotAList == [type |-> "dict", items |-> <<>>]

FullIpTranslation == [strategy |-> "geo", params |-> "p1"]

Documents(Versions, Durations, Metrics, Subsets, StartTimes, Providers, Sites, Ips) ==
  {v @@ d @@ m @@ sub @@ st @@ cp @@ si @@ ip :
     v \in Versions, d \in Durations, m \in Metrics, sub \in Subsets,
     st \in Field("start_times", StartTimes),
     cp \in Field("client_providers", Providers),
     si \in Field("sites", Sites),
     ip \in Field("ip_translation", Ips)}

\* Documents that vary the fields the validators read.
SchemaDocs ==
  Documents(Optional("file_format_version", {10, 11, 20}),
            Optional("duration", {<<"1", "d">>, <<"1", "x">>}),
            Optional("metrics", MetricLists(MaxMetrics) \cup {NotAList}),
            Optional("subsets", {<<>>}),
            {<<Timestamp(1, "T")>>}, {<<ProviderNames[1]>>}, {<<SiteNames[1]>>},
            {FullIpTranslation})

\* Version 1.1 documents that vary the fields the expansion reads.
ExpansionDocs ==
  Documents(Field("file_format_version", {11}),
            Field("duration", {<<"1", "d">>, <<"1", "x">>, <<>>}),
            Field("metrics", MetricLists(MaxMetrics)),
            {EmptyDict},
            StartTimeLists(MaxStartTimes),
            Prefixes(ProviderNames, MaxProviders),
            Prefixes(SiteNames, MaxSites),
            {FullIpTranslation, [params |-> "p1"], [strategy |-> "geo"]})

Docs == SchemaDocs \cup ExpansionDocs

\* Valid documents that vary ip_translation, for sequences of calls whose
\* results the caller keeps.
CallsDocs ==
  Documents(Field("file_format_version", {11}),
            Field("duration", {<<"1", "d">>}),
            Field("metrics", {[type |-> "list", items |-> <<"minimum_rtt">>]}),
            {EmptyDict},
            {<<Timestamp(1, "T")>>},
            {<<ProviderNames[1]>>}, Prefixes(SiteNames, 1),
            {s @@ p : s \in Optional("strategy", {"geo", "anon"}),
                      p \in Optional("params", {"p1", "p2"})})

(***************************************************************************)
(* Direct calls of the duration parser on bounded strings.                 *)
(***************************************************************************)
DurationAlphabet == {"0", "1", "d", "h", "m", "s", "x", "-"}

RECURSIVE StringsUpTo(_)
StringsUpTo(n) ==
  IF n = 0 THEN {<<>>}
  ELSE LET shorter == StringsUpTo(n - 1)
       IN shorter \cup {Append(s, c) : s \in shorter, c \in DurationAlphabet}

DurationExamples ==
  { <<"1", "d", "2", "h", "3", "m", "4", "s">>, <<"5", "x">>, <<"7", "d">>,
    <<"1", "d", "1", "2", "h">>, <<"3", "0", "d">> }

DurationInputs == StringsUpTo(MaxLen) \cup DurationExamples

NotCalled == [status |-> "not called", error |-> None, value |-> 0]

InitParse ==
  /\ pc = "idle"
  /\ selector_json = <<>>
  /\ parser_validator = None
  /\ k = 0
  /\ selectors = <<>>
  /\ result = <<>>
  /\ error = None
  /\ IPTranslationStrategySpec = [strategy_name |-> "unset", params |-> "unset"]
  /\ constructed = 0
  /\ ip_parses = 0
  /\ duration_parses = 0
  /\ held = <<>>

InitDuration ==
  /\ InitParse
  /\ duration_string \in DurationInputs
  /\ duration_outcome = NotCalled

CallParseDuration ==
  /\ duration_outcome.status = "not called"
  /\ LET r == ParseDuration(duration_string)
     IN duration_outcome' =
          [status |-> IF r.error = None THEN "returned" ELSE "raised",
           error |-> r.error, value |-> r.value]
  /\ UNCHANGED <<duration_string, parseVars>>

NextDuration == CallParseDuration

SpecDuration == InitDuration /\ [][NextDuration]_vars

(***************************************************************************)
(* A parse call.                                                           *)
(***************************************************************************)
\* parse / _parse_file_contents up to the call of the expansion: the document
\* is decoded and validated; a validation error leaves parse at once.
ParseFileContents(doc) ==
  /\ pc = "idle"
  /\ selector_json' = doc
  /\ LET validation == ValidateSelectorInput(doc)
     IN /\ parser_validator' = validation.parser_validator
        /\ error' = validation.error
        /\ pc' = IF validation.error = None THEN "expand" ELSE "raised"
  /\ k' = 0
  /\ selectors' = <<>>
  /\ result' = ResultOnRaise(<<>>)
  /\ constructed' = 0
  /\ ip_parses' = 0
  /\ duration_parses' = 0
  /\ UNCHANGED <<IPTranslationStrategySpec, held, duration_string, duration_outcome>>

\* One iteration of the for loop of _parse_input_for_selectors.
ExpandStep ==
  /\ pc = "expand"
  /\ k < ProductLen(selector_json)
  /\ LET body == LoopBody(selector_json, k, IPTranslationStrategySpec)
     IN /\ IPTranslationStrategySpec' = body.cls
        /\ constructed' = constructed + 1
        /\ ip_parses' = ip_parses + body.ip_parsed
        /\ duration_parses' = duration_parses + body.duration_parsed
        /\ IF body.error = None
             THEN /\ selectors' = Append(selectors, body.selector)
                  /\ k' = k + 1
                  /\ UNCHANGED <<pc, result, error>>
             ELSE /\ pc' = "raised"
                  /\ error' = body.error
                  /\ result' = ResultOnRaise(selectors)
                  /\ selectors' = <<>>
                  /\ UNCHANGED k
  /\ UNCHANGED <<selector_json, parser_validator, held, duration_string,
                 duration_outcome>>

\* The loop is exhausted: return selectors, through _parse_file_contents and
\* parse, to the caller.
Return ==
  /\ pc = "expand"
  /\ k = ProductLen(selector_json)
  /\ pc' = "returned"
  /\ result' = selectors
  /\ UNCHANGED <<selector_json, parser_validator, k, selectors, error,
                 IPTranslationStrategySpec, constructed, ip_parses,
                 duration_parses, held, duration_string, duration_outcome>>

\* The frame of the finished call is gone; nothing of it is left but what the
\* caller holds and the attributes of the shared object.
CallOver ==
  /\ pc' = "idle"
  /\ selector_json' = <<>>
  /\ parser_validator' = None
  /\ k' = 0
  /\ selectors' = <<>>
  /\ result' = <<>>
  /\ error' = None
  /\ constructed' = 0
  /\ ip_parses' = 0
  /\ duration_parses' = 0
  /\ UNCHANGED <<IPTranslationStrategySpec, duration_string, duration_outcome>>

\* The caller keeps the list it received, with the ip_translation of the
\* document it came from, while it goes on to further calls.
Retain ==
  /\ pc = "returned"
  /\ Len(held) < MaxHeld
  /\ held' = Append(held, [records |-> result,
                           ip_translation |-> selector_json["ip_translation"]])
  /\ CallOver

\* The caller drops the list it received, or has handled the exception.
Discard ==
  /\ pc \in {"returned", "raised"}
  /\ UNCHANGED held
  /\ CallOver

Init ==
  /\ InitParse
  /\ duration_string = <<>>
  /\ duration_outcome = NotCalled

Call == pc = "idle" /\ \E doc \in Docs : ParseFileContents(doc)

Next == Call \/ ExpandStep \/ Return \/ Discard

Spec == Init /\ [][Next]_vars

CallAgain == pc = "idle" /\ \E doc \in CallsDocs : ParseFileContents(doc)

NextCalls == CallAgain \/ ExpandStep \/ Return \/ Retain \/ Discard

SpecCalls == Init /\ [][NextCalls]_vars

(***************************************************************************)
(* Vocabulary of the properties: the specification's error names as the    *)
(* messages the code raises, its supported-metric set, and the axes of     *)
(* the document of the current call.                                       *)
(***************************************************************************)
NoVersionSpecified == "NoSelectorVersionSpecified"
DeprecatedVersion == "DeprecatedSelectorVersion"
UnsupportedVersion == "UnsupportedSelectorVersion"
MissingDuration == "UnsupportedDuration"
MetricsMustBeList == "MetricsRequiresList"
UnsupportedMetric == "UnsupportedMetric"
SubsetsNoLongerSupported == "SubsetsNoLongerSupported"
NoDurationSpecified == "UnsupportedSelectorDuration"
UnsupportedDurationUnit == "UnsupportedSelectorDurationType"
UnsupportedTimestampFormat == "UnsupportedSubsetDateFormat"

ValidationErrors ==
  {NoVersionSpecified, DeprecatedVersion, UnsupportedVersion, MissingDuration,
   MetricsMustBeList, UnsupportedMetric, SubsetsNoLongerSupported}

SupportedMetricSet ==
  {"download_throughput", "upload_throughput", "minimum_rtt", "average_rtt",
   "packet_retransmit_rate"}

Called == pc # "idle"
Version11 ==
  /\ "file_format_version" \in DOMAIN selector_json
  /\ selector_json["file_format_version"] = 11

AxisStartTimes == selector_json["start_times"]
AxisProviders == selector_json["client_providers"]
AxisSites == selector_json["sites"]
AxisMetrics == selector_json["metrics"].items

Positions ==
  (1..Len(AxisStartTimes)) \X (1..Len(AxisProviders)) \X (1..Len(AxisSites))
    \X (1..Len(AxisMetrics))

\* The four varying fields of the record built from the elements at positions p.
BuiltFrom(p) ==
  <<ParseStartTime(AxisStartTimes[p[1]]).value, AxisProviders[p[2]],
    AxisSites[p[3]], AxisMetrics[p[4]]>>

VaryingFields(rec) == <<rec.start_time, rec.client_provider, rec.site, rec.metric>>

C3_AllOrNothing ==
  /\ pc \in {"expand", "raised"} => result = <<>>
  /\ pc = "raised" => error # None
  /\ pc = "raised" /\ error \in ValidationErrors => constructed = 0
  /\ pc = "returned" =>
       /\ error = None
       /\ Len(result) = Len(AxisStartTimes) * Len(AxisProviders) * Len(AxisSites)
                          * Len(AxisMetrics)
       /\ Len(result) = constructed

C3_Witness ==
  /\ pc = "raised"
  /\ error = UnsupportedTimestampFormat
  /\ constructed >= 2
  /\ result = <<>>

\* C4: the dispatch is decided by file_format_version alone: absent raises
\* NoVersionSpecified, 1.0 raises DeprecatedVersion with no validator chosen,
\* 1.1 goes to the 1.1 validator, anything else raises UnsupportedVersion.
C4_VersionDispatch ==
  Called =>
    IF "file_format_version" \notin DOMAIN selector_json
      THEN pc = "raised" /\ error = NoVersionSpecified /\ parser_validator = None
    ELSE IF selector_json["file_format_version"] = 10
      THEN pc = "raised" /\ error = DeprecatedVersion /\ parser_validator = None
    ELSE IF selector_json["file_format_version"] = 11
      THEN /\ parser_validator = "SelectorFileValidator1_1"
           /\ error \notin {NoVersionSpecified, DeprecatedVersion, UnsupportedVersion}
    ELSE pc = "raised" /\ error = UnsupportedVersion /\ parser_validator = None

C4_Witness ==
  /\ pc = "raised"
  /\ "file_format_version" \in DOMAIN selector_json
  /\ selector_json["file_format_version"] = 10
  /\ "duration" \notin DOMAIN selector_json
  /\ "subsets" \in DOMAIN selector_json
  /\ error = DeprecatedVersion

\* What the specification's common validation decides for a document.
CommonDecision(doc) ==
  IF "duration" \notin DOMAIN doc THEN MissingDuration
  ELSE IF "metrics" \notin DOMAIN doc THEN MetricsMustBeList
  ELSE IF doc["metrics"].type # "list" THEN MetricsMustBeList
  ELSE IF \E i \in 1..Len(doc["metrics"].items) :
            doc["metrics"].items[i] \notin SupportedMetricSet
    THEN UnsupportedMetric
  ELSE None

\* C5 as stated: a version 1.1 document with a subsets field always fails with
\* SubsetsNoLongerSupported, whatever its other fields are.
C5_SubsetsAlwaysRejectedAsSubsets ==
  Called /\ Version11 /\ "subsets" \in DOMAIN selector_json =>
    pc = "raised" /\ error = SubsetsNoLongerSupported

\* C5 amended: a version 1.1 document with a subsets field is always rejected
\* by validation; it fails with SubsetsNoLongerSupported when it passes common
\* validation, and with the error of common validation otherwise.
C5_SubsetsRejectedAfterCommon ==
  Called /\ Version11 /\ "subsets" \in DOMAIN selector_json =>
    /\ pc = "raised"
    /\ constructed = 0
    /\ error = IF CommonDecision(selector_json) = None
                 THEN SubsetsNoLongerSupported
                 ELSE CommonDecision(selector_json)

C5_Witness ==
  /\ Called /\ Version11 /\ "subsets" \in DOMAIN selector_json
  /\ CommonDecision(selector_json) = None
  /\ pc = "raised" /\ error = SubsetsNoLongerSupported

\* C6: common validation of a version 1.1 document fails with MissingDuration
\* if duration is absent, else with MetricsMustBeList if metrics is absent or
\* no list, else with UnsupportedMetric if an entry is unsupported, and passes
\* exactly otherwise; no unsupported metric reaches the expansion.
C6_CommonValidationOrder ==
  Called /\ Version11 =>
    /\ CommonDecision(selector_json) # None =>
         pc = "raised" /\ error = CommonDecision(selector_json)
    /\ CommonDecision(selector_json) = None =>
         error \notin {MissingDuration, MetricsMustBeList, UnsupportedMetric}
    /\ pc \in {"expand", "returned"} \/ constructed > 0 =>
         \A i \in 1..Len(AxisMetrics) : AxisMetrics[i] \in SupportedMetricSet

C6_Witness ==
  /\ Called /\ Version11
  /\ "duration" \in DOMAIN selector_json
  /\ "metrics" \in DOMAIN selector_json
  /\ selector_json["metrics"].type = "list"
  /\ Len(AxisMetrics) = 2
  /\ AxisMetrics[1] \in SupportedMetricSet
  /\ AxisMetrics[2] = "hop_count"
  /\ pc = "raised" /\ error = UnsupportedMetric

(***************************************************************************)
(* The duration grammar of the specification: one or more segments        *)
(* <positive integer><unit>, unit one of d, h, m, s.  The integer is read  *)
(* as any unsigned decimal numeral, so that "0d" conforms (with value 0):  *)
(* the reading under which the parser is nearest to the grammar.           *)
(***************************************************************************)
Units == {"d", "h", "m", "s"}

UnitSeconds(u) ==
  CASE u = "d" -> 86400 [] u = "h" -> 3600 [] u = "m" -> 60 [] u = "s" -> 1

\* s conforms to the grammar from position i on.
RECURSIVE ConformsFrom(_, _)
ConformsFrom(s, i) ==
  LET j == RunEnd(s, i, DigitChars)
  IN /\ j > i
     /\ j <= Len(s)
     /\ s[j] \in Units
     /\ (j = Len(s) \/ ConformsFrom(s, j + 1))

\* The value the grammar gives a conforming string from position i on.
RECURSIVE GrammarValue(_, _)
GrammarValue(s, i) ==
  IF i > Len(s) THEN 0
  ELSE LET j == RunEnd(s, i, DigitChars)
       IN IntOf(SubSeq(s, i, j - 1)) * UnitSeconds(s[j]) + GrammarValue(s, j + 1)

\* A digit run followed by a letter run that is no unit.
HasUnknownUnit(s) ==
  \E i \in 1..Len(s) :
    /\ s[i] \in DigitChars
    /\ i = 1 \/ s[i - 1] \notin DigitChars
    /\ LET j == RunEnd(s, i, DigitChars)
           e == RunEnd(s, j, LetterChars)
       IN e > j /\ (e - j > 1 \/ s[j] \notin Units)

\* No digit is followed by a letter anywhere.
HasNoSegment(s) ==
  \A i \in 1..(Len(s) - 1) : ~(s[i] \in DigitChars /\ s[i + 1] \in LetterChars)

\* C7: the duration parser is the function the grammar defines: a conforming
\* string gives the sum of its segments in seconds, a segment with an unknown
\* unit fails with UnsupportedDurationUnit, a string without any segment fails
\* with NoDurationSpecified, and no string outside the grammar is accepted.
C7_DurationGrammar ==
  duration_outcome.status # "not called" =>
    /\ ConformsFrom(duration_string, 1) =>
         /\ duration_outcome.status = "returned"
         /\ duration_outcome.value = GrammarValue(duration_string, 1)
         /\ duration_outcome.value >= 0
    /\ HasUnknownUnit(duration_string) =>
         /\ duration_outcome.status = "raised"
         /\ duration_outcome.error = UnsupportedDurationUnit
    /\ HasNoSegment(duration_string) =>
         /\ duration_outcome.status = "raised"
         /\ duration_outcome.error = NoDurationSpecified
    /\ ~ConformsFrom(duration_string, 1) => duration_outcome.status = "raised"

RecordInvariants(rec) ==
  /\ rec.metric \in SupportedMetricSet
  /\ rec.mlab_project = supported_metrics[rec.metric]

\* C8: every Selector the expansion builds or parse returns has a supported
\* metric and the mlab_project the table gives for that metric, and the table
\* lookup never fails (no KeyError) for a document that passed validation.
C8_RecordInvariants ==
  /\ \A i \in 1..Len(selectors) : RecordInvariants(selectors[i])
  /\ \A i \in 1..Len(result) : RecordInvariants(result[i])
  /\ error # "KeyError"

C8_Witness ==
  /\ pc = "returned"
  /\ \E i, j \in 1..Len(result) :
       /\ result[i].metric = "minimum_rtt"
       /\ result[j].metric = "download_throughput"

\* The attributes a holder of a Selector reads through its ip_translation_spec.
Attributes(ref) == IPTranslationStrategySpec

\* C9: every record of an earlier call still shows the strategy_name and params
\* of the ip_translation of the document of the call that produced it, whatever
\* calls came later.
C9_NoLeakBetweenCalls ==
  \A b \in 1..Len(held) :
    \A i \in 1..Len(held[b].records) :
      /\ Attributes(held[b].records[i].ip_translation_spec).strategy_name
           = held[b].ip_translation["strategy"]
      /\ Attributes(held[b].records[i].ip_translation_spec).params
           = held[b].ip_translation["params"]

\* All records of the returned list carry one duration, the seconds of the
\* document's duration, and one ip_translation_spec, which shows the strategy
\* and params of the document's ip_translation.
SameScalars ==
  /\ \A i, j \in 1..Len(result) :
       /\ result[i].duration = result[j].duration
       /\ result[i].ip_translation_spec = result[j].ip_translation_spec
  /\ \A i \in 1..Len(result) :
       /\ result[i].duration = ParseDuration(selector_json["duration"]).value
       /\ Attributes(result[i].ip_translation_spec).strategy_name
            = selector_json["ip_translation"]["strategy"]
       /\ Attributes(result[i].ip_translation_spec).params
            = selector_json["ip_translation"]["params"]

\* C10 as stated, on the expansions that produce records: duration and
\* ip_translation are each parsed exactly once in one parse call, whatever the
\* size of the cross product, and all records carry the same values.  (An
\* empty cross product, with no parse at all, is left out of this statement.)
C10_ParsedOnce ==
  pc = "returned" /\ result # <<>> =>
    /\ duration_parses = 1
    /\ ip_parses = 1
    /\ SameScalars

\* C10 amended: duration and ip_translation are each parsed once per record
\* produced (as many parses as records, none for an empty cross product), and
\* all records of one call carry the same duration and ip_translation values.
C10_ParsedPerRecord ==
  /\ pc = "expand" =>
       duration_parses = Len(selectors) /\ ip_parses = Len(selectors)
  /\ pc = "returned" =>
       /\ duration_parses = Len(result)
       /\ ip_parses = Len(result)
       /\ SameScalars

C10_Witness ==
  /\ pc = "returned"
  /\ Len(result) >= 2
  /\ duration_parses = Len(result)
  /\ ip_parses = Len(result)

====
